---- MODULE Spec2Model ----
(***************************************************************************)
(* Model of the unicode-string crate: the owned buffer UnicodeString       *)
(* (a Vec<char>) and the borrowed view unicode_str (a [char]), with the    *)
(* six SliceIndex<unicode_str> implementations of unicode_str_impl/index.rs *)
(* and the forwarding Index/IndexMut implementations of                    *)
(* unicode_string_impl/index.rs.                                           *)
(*                                                                         *)
(* A view is the pair (off, len): the offset of its first element in the   *)
(* buffer's storage and its element count, which is exactly what the raw   *)
(* pointer arithmetic of get_unchecked computes.  usize is scaled down to  *)
(* UsizeBits bits so that usize::MAX is an input the checker can draw.     *)
(***************************************************************************)
EXTENDS Integers, Sequences, FiniteSets, TLC

\* ---------------------------------------------------------------- bounds
MaxLen == 2

MaxCapacity == 2

UsizeBits == 4

\* usize::MAX at the modelled width.
USIZE_MAX == 2^UsizeBits - 1

\* Scalar values the buffer is filled with (code points of 'a' and 'b').
Chars == {97, 98}

\* Index values drawn for range endpoints: every cut point of the longest
\* buffer, one past it, and usize::MAX.
IdxVals == (0..(MaxLen + 1)) \cup {USIZE_MAX}

\* ---------------------------------------------------------------- state
VARIABLES
    vec,        \* UnicodeString.vec: the elements, in order
    cap,        \* vec.capacity()
    pushed,     \* the arguments of the push calls so far, in call order
    ctor,       \* how the buffer was constructed: [name, n, cap0]
    cur,        \* the live view borrowed from the buffer, or NoView
    last,       \* the indexing call in progress: range, mode, source, outcome
    overflow_checks, \* the build profile: TRUE when usize arithmetic is checked
    wr,         \* the element write in progress: its index, value and the
                \* buffer before it
    input,      \* the argument of a conversion or the operands of a comparison
    output,     \* the value that conversion or comparison returned
    pc          \* "running", "returned" (a call has returned its result),
                \* "panicked" (a panic unwound the program), "ub" (a
                \* reference outside its source's span was returned),
                \* "wrote" (an element was written), "start" and "done"
                \* (before and after a conversion or comparison)

vars == <<vec, cap, pushed, ctor, cur, last, overflow_checks, wr, input, output, pc>>

\* ------------------------------------------------------- views, outcomes
NoView == [live |-> FALSE, off |-> 0, len |-> 0, mut |-> FALSE]

LiveView(off, len, mut) == [live |-> TRUE, off |-> off, len |-> len, mut |-> mut]

\* Outcome of a SliceIndex call: a view, None, or a panic with its message.
View(off, len) == [tag |-> "View", off |-> off, len |-> len, msg |-> ""]

None == [tag |-> "None", off |-> 0, len |-> 0, msg |-> ""]

Panic(msg) == [tag |-> "Panic", off |-> 0, len |-> 0, msg |-> msg]

str_index_overflow_fail == Panic("attempted to index str up to maximum usize")

slice_error_fail == Panic("failed to slice string")

\* usize subtraction `a - b`: with overflow checks (debug profile) an
\* underflow panics, without them (release profile) it wraps.
ArithOverflow == Panic("attempt to subtract with overflow")

WrappingSub(a, b) == (a - b + 2^UsizeBits) % (2^UsizeBits)

\* ------------------------------------------------------------- ranges
RangeFull == [kind |-> "RangeFull", start |-> 0, end |-> 0, exhausted |-> FALSE]

Range(start, end) == [kind |-> "Range", start |-> start, end |-> end, exhausted |-> FALSE]

RangeTo(end) == [kind |-> "RangeTo", start |-> 0, end |-> end, exhausted |-> FALSE]

RangeFrom(start) == [kind |-> "RangeFrom", start |-> start, end |-> 0, exhausted |-> FALSE]

RangeInclusive(start, end, exhausted) == [kind |-> "RangeInclusive", start |-> start, end |-> end, exhausted |-> exhausted]

RangeToInclusive(end) == [kind |-> "RangeToInclusive", start |-> 0, end |-> end, exhausted |-> FALSE]

\* The range values a caller can pass.  An iterated RangeInclusive sets
\* `exhausted` only once start has reached end.
Ranges ==
    {RangeFull}
    \cup {Range(b, e) : b \in IdxVals, e \in IdxVals}
    \cup {RangeTo(e) : e \in IdxVals}
    \cup {RangeFrom(b) : b \in IdxVals}
    \cup {RangeInclusive(b, e, FALSE) : b \in IdxVals, e \in IdxVals}
    \cup {RangeInclusive(e, e, TRUE) : e \in IdxVals}
    \cup {RangeToInclusive(e) : e \in IdxVals}

Modes == {"get", "get_mut", "index", "index_mut"}

IsMut(mode) == mode \in {"get_mut", "index_mut"}

\* ------------------------------------------ SliceIndex for ops::RangeFull
\* `s` is the indexed view [off, len]; every operator returns an outcome.
RangeFull_get(s) == View(s.off, s.len)

RangeFull_get_mut(s) == View(s.off, s.len)

\* RangeFull_index that forgets the view's own offset in the storage.
RangeFull_index_FromStorageStart(s) == View(0, s.len)

RangeFull_index(s) == View(s.off, s.len)

RangeFull_index_mut(s) == View(s.off, s.len)

\* ------------------------------------- SliceIndex for ops::Range<usize>
\* ptr = slice.add(start); len = end - start.  Called only with
\* start <= end, so the subtraction cannot underflow.
Range_get_unchecked(start, end, s) == View(s.off + start, end - start)

\* Range_get_unchecked_mut without the `add(self.start)`.
Range_get_unchecked_mut_NoAdd(start, end, s) == View(s.off, end - start)

Range_get_unchecked_mut(start, end, s) == View(s.off + start, end - start)

\* The only test is start <= end: `end` is not compared with the length.
Range_get(start, end, s) ==
    IF start <= end THEN Range_get_unchecked(start, end, s) ELSE None

Range_get_mut(start, end, s) ==
    IF start <= end THEN Range_get_unchecked_mut(start, end, s) ELSE None

Range_index(start, end, s) ==
    LET r == Range_get(start, end, s)
    IN  IF r.tag = "View" THEN r ELSE slice_error_fail

\* Range_index_mut that takes `end` for the length of the view.
Range_index_mut_LenEnd(start, end, s) ==
    IF start <= end THEN View(s.off + start, end) ELSE slice_error_fail

Range_index_mut(start, end, s) ==
    IF start <= end THEN Range_get_unchecked_mut(start, end, s) ELSE slice_error_fail

\* ----------------------------------- SliceIndex for ops::RangeTo<usize>
RangeTo_get_unchecked(end, s) == View(s.off, end)

RangeTo_get_unchecked_mut(end, s) == View(s.off, end)

\* get is unconditionally Some.
RangeTo_get(end, s) == RangeTo_get_unchecked(end, s)

RangeTo_get_mut(end, s) == RangeTo_get_unchecked_mut(end, s)

RangeTo_index(end, s) ==
    LET r == RangeTo_get(end, s)
    IN  IF r.tag = "View" THEN r ELSE slice_error_fail

RangeTo_index_mut(end, s) == RangeTo_get_unchecked_mut(end, s)

\* --------------------------------- SliceIndex for ops::RangeFrom<usize>
\* len = chars.len() - start is a usize subtraction: for start > len it
\* panics when the build has overflow checks (oc) and wraps when it has not.
RangeFrom_get_unchecked(start, s, oc) ==
    IF start > s.len /\ oc
    THEN ArithOverflow
    ELSE View(s.off + start, WrappingSub(s.len, start))

RangeFrom_get_unchecked_mut(start, s, oc) ==
    IF start > s.len /\ oc
    THEN ArithOverflow
    ELSE View(s.off + start, WrappingSub(s.len, start))

\* get is unconditionally Some (a panic inside get_unchecked propagates).
RangeFrom_get(start, s, oc) == RangeFrom_get_unchecked(start, s, oc)

RangeFrom_get_mut(start, s, oc) == RangeFrom_get_unchecked_mut(start, s, oc)

RangeFrom_index(start, s, oc) ==
    LET r == RangeFrom_get(start, s, oc)
    IN  IF r.tag = "None" THEN slice_error_fail ELSE r

RangeFrom_index_mut(start, s, oc) == RangeFrom_get_unchecked_mut(start, s, oc)

\* ---------------------------- SliceIndex for ops::RangeInclusive<usize>
\* Callers test end == usize::MAX first, so end + 1 does not overflow here.
into_slice_range(r) ==
    LET exclusive_end == r.end + 1
        start == IF r.exhausted THEN exclusive_end ELSE r.start
    IN  Range(start, exclusive_end)

RangeInclusive_get(r, s) ==
    IF r.end = USIZE_MAX
    THEN None
    ELSE LET h == into_slice_range(r) IN Range_get(h.start, h.end, s)

RangeInclusive_get_mut(r, s) ==
    IF r.end = USIZE_MAX
    THEN None
    ELSE LET h == into_slice_range(r) IN Range_get_mut(h.start, h.end, s)

\* RangeInclusive_index without the test for end == usize::MAX.
RangeInclusive_index_NoMaxTest(r, s) ==
    LET h == into_slice_range(r) IN Range_index(h.start, h.end, s)

RangeInclusive_index(r, s) ==
    IF r.end = USIZE_MAX
    THEN str_index_overflow_fail
    ELSE LET h == into_slice_range(r) IN Range_index(h.start, h.end, s)

RangeInclusive_index_mut(r, s) ==
    IF r.end = USIZE_MAX
    THEN str_index_overflow_fail
    ELSE LET h == into_slice_range(r) IN Range_index_mut(h.start, h.end, s)

\* -------------------------- SliceIndex for ops::RangeToInclusive<usize>
RangeToInclusive_get(end, s) ==
    IF end = USIZE_MAX THEN None ELSE RangeTo_get(end + 1, s)

RangeToInclusive_get_mut(end, s) ==
    IF end = USIZE_MAX THEN None ELSE RangeTo_get_mut(end + 1, s)

RangeToInclusive_index(end, s) ==
    IF end = USIZE_MAX THEN str_index_overflow_fail ELSE RangeTo_index(end + 1, s)

RangeToInclusive_index_mut(end, s) ==
    IF end = USIZE_MAX THEN str_index_overflow_fail ELSE RangeTo_index_mut(end + 1, s)

\* ------------------------------------------ dispatch on the range type
\* I::get / I::get_mut / I::index / I::index_mut for the range value r.
SliceIndex_get(r, s, oc) ==
    CASE r.kind = "RangeFull" -> RangeFull_get(s)
      [] r.kind = "Range" -> Range_get(r.start, r.end, s)
      [] r.kind = "RangeTo" -> RangeTo_get(r.end, s)
      [] r.kind = "RangeFrom" -> RangeFrom_get(r.start, s, oc)
      [] r.kind = "RangeInclusive" -> RangeInclusive_get(r, s)
      [] r.kind = "RangeToInclusive" -> RangeToInclusive_get(r.end, s)

SliceIndex_get_mut(r, s, oc) ==
    CASE r.kind = "RangeFull" -> RangeFull_get_mut(s)
      [] r.kind = "Range" -> Range_get_mut(r.start, r.end, s)
      [] r.kind = "RangeTo" -> RangeTo_get_mut(r.end, s)
      [] r.kind = "RangeFrom" -> RangeFrom_get_mut(r.start, s, oc)
      [] r.kind = "RangeInclusive" -> RangeInclusive_get_mut(r, s)
      [] r.kind = "RangeToInclusive" -> RangeToInclusive_get_mut(r.end, s)

\* impl Index<I> for unicode_str
unicode_str_index(r, s, oc) ==
    CASE r.kind = "RangeFull" -> RangeFull_index(s)
      [] r.kind = "Range" -> Range_index(r.start, r.end, s)
      [] r.kind = "RangeTo" -> RangeTo_index(r.end, s)
      [] r.kind = "RangeFrom" -> RangeFrom_index(r.start, s, oc)
      [] r.kind = "RangeInclusive" -> RangeInclusive_index(r, s)
      [] r.kind = "RangeToInclusive" -> RangeToInclusive_index(r.end, s)

\* impl IndexMut<I> for unicode_str
unicode_str_index_mut(r, s, oc) ==
    CASE r.kind = "RangeFull" -> RangeFull_index_mut(s)
      [] r.kind = "Range" -> Range_index_mut(r.start, r.end, s)
      [] r.kind = "RangeTo" -> RangeTo_index_mut(r.end, s)
      [] r.kind = "RangeFrom" -> RangeFrom_index_mut(r.start, s, oc)
      [] r.kind = "RangeInclusive" -> RangeInclusive_index_mut(r, s)
      [] r.kind = "RangeToInclusive" -> RangeToInclusive_index_mut(r.end, s)

SliceOutcome(r, mode, s, oc) ==
    CASE mode = "get" -> SliceIndex_get(r, s, oc)
      [] mode = "get_mut" -> SliceIndex_get_mut(r, s, oc)
      [] mode = "index" -> unicode_str_index(r, s, oc)
      [] mode = "index_mut" -> unicode_str_index_mut(r, s, oc)

\* ------------------------------------------------------- UnicodeString
\* Deref / DerefMut: unicode_str::from_chars(&self.vec) is the view of the
\* whole vector.
UnicodeString_deref(v) == [off |-> 0, len |-> Len(v)]

UnicodeString_deref_mut(v) == [off |-> 0, len |-> Len(v)]

UnicodeString_len(v) == Len(v)

\* Index<R> for UnicodeString: `&self[..][index]` for Range, RangeTo and
\* RangeFrom, `&self` for RangeFull, Index::index(&**self, index) for the
\* two inclusive kinds.
UnicodeString_index(r, v, oc) ==
    CASE r.kind = "RangeFull" -> View(UnicodeString_deref(v).off, UnicodeString_deref(v).len)
      [] r.kind \in {"Range", "RangeTo", "RangeFrom"} ->
            LET full == UnicodeString_deref(v)
            IN  unicode_str_index(r, [off |-> full.off, len |-> full.len], oc)
      [] r.kind \in {"RangeInclusive", "RangeToInclusive"} ->
            unicode_str_index(r, UnicodeString_deref(v), oc)

\* UnicodeString_index_mut that slices an inclusive range as start..end.
UnicodeString_index_mut_InclusiveAsExclusive(r, v, oc) ==
    CASE r.kind = "RangeFull" -> View(UnicodeString_deref_mut(v).off, UnicodeString_deref_mut(v).len)
      [] r.kind \in {"Range", "RangeTo", "RangeFrom"} ->
            unicode_str_index_mut(r, UnicodeString_deref_mut(v), oc)
      [] r.kind = "RangeInclusive" ->
            unicode_str_index_mut(Range(r.start, r.end), UnicodeString_deref_mut(v), oc)
      [] r.kind = "RangeToInclusive" ->
            unicode_str_index_mut(RangeTo(r.end), UnicodeString_deref_mut(v), oc)

\* IndexMut<R> for UnicodeString.
UnicodeString_index_mut(r, v, oc) ==
    CASE r.kind = "RangeFull" -> View(UnicodeString_deref_mut(v).off, UnicodeString_deref_mut(v).len)
      [] r.kind \in {"Range", "RangeTo", "RangeFrom"} ->
            LET full == UnicodeString_deref_mut(v)
            IN  unicode_str_index_mut(r, [off |-> full.off, len |-> full.len], oc)
      [] r.kind \in {"RangeInclusive", "RangeToInclusive"} ->
            unicode_str_index_mut(r, UnicodeString_deref_mut(v), oc)

\* Vec::push grows a full vector before writing: the new capacity is the
\* larger of twice the old one, len + 1 and the minimum non-zero capacity
\* of a vector of 4-byte elements.
Max(a, b) == IF a >= b THEN a ELSE b

grow_amortized(c, len) == Max(Max(c * 2, len + 1), 4)

\* push_capacity that grows one push too late.
push_capacity_Late(c, len) == IF len > c THEN grow_amortized(c, len) ELSE c

push_capacity(c, len) == IF len = c THEN grow_amortized(c, len) ELSE c

\* push_vec that inserts at the front.
push_vec_Front(v, ch) == <<ch>> \o v

push_vec(v, ch) == Append(v, ch)

\* chars(): the elements a view covers, read from the buffer's storage.
chars(v, s) == [i \in 1..s.len |-> v[s.off + i]]

\* ------------------------------------------------------------ the calls
NoCall == [on |-> "none", range |-> RangeFull, mode |-> "index",
           src |-> [off |-> 0, len |-> 0], out |-> None]

Call(on, r, mode, src, out) ==
    [on |-> on, range |-> r, mode |-> mode,
     src |-> [off |-> src.off, len |-> src.len], out |-> out]

\* No write in progress; no conversion or comparison called.
NoWrite == [i |-> 0, ch |-> 0, before |-> <<>>, cap |-> 0]

NoValue == [tag |-> "none"]

\* A returned view stays inside the span of the view it was cut from.
InSpan(out, src) == out.off >= src.off /\ out.off + out.len <= src.off + src.len

\* UnicodeString::new() and UnicodeString::with_capacity(n).
New ==
    /\ vec = <<>>
    /\ cap = 0
    /\ ctor = [name |-> "new", n |-> 0, cap0 |-> 0]

WithCapacity(n) ==
    /\ vec = <<>>
    /\ cap = n
    /\ ctor = [name |-> "with_capacity", n |-> n, cap0 |-> n]

Init ==
    /\ New \/ \E n \in 0..MaxCapacity : WithCapacity(n)
    /\ pushed = <<>>
    /\ overflow_checks \in BOOLEAN
    /\ cur = NoView
    /\ last = NoCall
    /\ wr = NoWrite
    /\ input = NoValue
    /\ output = NoValue
    /\ pc = "running"

\* s.push(ch): needs exclusive access, so no view is borrowed.
Push(ch) ==
    /\ pc = "running"
    /\ ~cur.live
    /\ Len(pushed) < MaxLen
    /\ vec' = push_vec(vec, ch)
    /\ cap' = push_capacity(cap, Len(vec))
    /\ pushed' = Append(pushed, ch)
    /\ UNCHANGED <<ctor, overflow_checks, wr, input, output, cur, last, pc>>

\* &*s
Deref ==
    /\ pc = "running"
    /\ ~cur.live
    /\ cur' = LiveView(UnicodeString_deref(vec).off, UnicodeString_deref(vec).len, FALSE)
    /\ UNCHANGED <<vec, cap, pushed, ctor, overflow_checks, wr, input, output, last, pc>>

\* &mut *s
DerefMut ==
    /\ pc = "running"
    /\ ~cur.live
    /\ cur' = LiveView(UnicodeString_deref_mut(vec).off, UnicodeString_deref_mut(vec).len, TRUE)
    /\ UNCHANGED <<vec, cap, pushed, ctor, overflow_checks, wr, input, output, last, pc>>

\* The call returns or panics.  A view that leaves the span of the view it
\* was cut from is a reference to memory its source does not cover: the
\* call has returned it, and nothing after that is modelled.
Called(call) ==
    /\ last' = call
    /\ pc' = CASE call.out.tag = "Panic" -> "panicked"
               [] call.out.tag = "View" /\ ~InSpan(call.out, call.src) -> "ub"
               [] OTHER -> "returned"
    /\ UNCHANGED <<vec, cap, pushed, ctor, overflow_checks, wr, input, output, cur>>

\* v[r], v.get(r), and their mutable forms, on the live view.
StrIndex(r, mode) ==
    /\ pc = "running"
    /\ cur.live
    /\ IsMut(mode) => cur.mut
    /\ Called(Call("unicode_str", r, mode, cur, SliceOutcome(r, mode, cur, overflow_checks)))

\* s[r] and &mut s[r] on the buffer itself.
StringIndex(r) ==
    /\ pc = "running"
    /\ ~cur.live
    /\ Called(Call("UnicodeString", r, "index", UnicodeString_deref(vec),
                   UnicodeString_index(r, vec, overflow_checks)))

StringIndexMut(r) ==
    /\ pc = "running"
    /\ ~cur.live
    /\ Called(Call("UnicodeString", r, "index_mut", UnicodeString_deref_mut(vec),
                   UnicodeString_index_mut(r, vec, overflow_checks)))

\* The caller binds the result: a returned view becomes the live view, and
\* after None the source stays borrowed.
Bind ==
    /\ pc = "returned"
    /\ cur' = IF last.out.tag = "View"
              THEN LiveView(last.out.off, last.out.len, IsMut(last.mode))
              ELSE cur
    /\ last' = NoCall
    /\ pc' = "running"
    /\ UNCHANGED <<vec, cap, pushed, ctor, overflow_checks, wr, input, output>>

\* The borrow ends.
Release ==
    /\ pc = "running"
    /\ cur.live
    /\ cur' = NoView
    /\ UNCHANGED <<vec, cap, pushed, ctor, overflow_checks, wr, input, output, last, pc>>

Next ==
    \/ \E ch \in Chars : Push(ch)
    \/ Deref
    \/ DerefMut
    \/ \E r \in Ranges, mode \in Modes : StrIndex(r, mode)
    \/ \E r \in Ranges : StringIndex(r)
    \/ \E r \in Ranges : StringIndexMut(r)
    \/ Bind
    \/ Release

Spec == Init /\ [][Next]_vars

TypeOK ==
    /\ vec \in Seq(Chars)
    /\ Len(vec) <= MaxLen
    /\ Len(pushed) <= MaxLen
    /\ cap \in Nat
    /\ overflow_checks \in BOOLEAN
    /\ pc \in {"running", "returned", "panicked", "ub"}
    /\ wr = NoWrite /\ input = NoValue /\ output = NoValue
    /\ cur.live => cur.off + cur.len <= Len(vec)

\* ------------------------------------------------- writes through a view
\* view.chars[i] = ch: the view's pointer is the address of element `off`
\* of the storage, so element i of the view is element off + i of the buffer.
write_char(v, s, i, ch) == [v EXCEPT ![s.off + i + 1] = ch]

\* (&mut b[begin..end]).chars[i] = ch on the buffer: the mutable view is
\* taken, the element is written (an index outside the view panics), and
\* the borrow ends with the statement.
WriteThrough(r, i, ch) ==
    LET full == UnicodeString_deref_mut(vec)
        out == UnicodeString_index_mut(r, vec, overflow_checks)
    IN  /\ pc = "running"
        /\ ~cur.live
        /\ out.tag = "View"
        /\ InSpan(out, full)
        /\ last' = Call("UnicodeString", r, "index_mut", full, out)
        /\ wr' = [i |-> i, ch |-> ch, before |-> vec, cap |-> cap]
        /\ IF i < out.len
           THEN vec' = write_char(vec, out, i, ch) /\ pc' = "wrote"
           ELSE vec' = vec /\ pc' = "panicked"
        /\ UNCHANGED <<cap, pushed, ctor, overflow_checks, cur, input, output>>

WriteDone ==
    /\ pc = "wrote"
    /\ wr' = NoWrite
    /\ last' = NoCall
    /\ pc' = "running"
    /\ UNCHANGED <<vec, cap, pushed, ctor, overflow_checks, cur, input, output>>

NextWrite ==
    \/ \E ch \in Chars : Push(ch)
    \/ \E b \in IdxVals, e \in IdxVals, i \in 0..MaxLen, ch \in Chars :
            WriteThrough(Range(b, e), i, ch)
    \/ WriteDone

SpecWrite == Init /\ [][NextWrite]_vars

\* ---------------------------------------------------------- conversions
\* Longest byte vector handed to from_utf8 / from_string.
MaxBytes == 4

\* Byte values the inputs are built from: NUL, continuation bytes below and
\* above 0xA0, and lead bytes of 2-, 3- and 4-byte sequences, among them the
\* bytes of the documented examples [0, 159] and [240, 159, 146, 150].
Bytes == {0, 146, 150, 159, 160, 195, 224, 237, 240}

ByteSeqs == UNION {[1..n -> Bytes] : n \in 0..MaxBytes}

\* str::from_utf8, which from_utf8 calls: the validation loop of the
\* standard library.
\* IsAscii that takes NUL for an invalid byte.
IsAscii_NoNul(b) == 0 < b /\ b < 128

IsAscii(b) == b < 128

utf8_char_width(b) ==
    IF b < 128 THEN 1
    ELSE IF b \in 194..223 THEN 2
    ELSE IF b \in 224..239 THEN 3
    ELSE IF b \in 240..244 THEN 4
    ELSE 0

\* `(byte as i8) < -64`: a continuation byte 0x80..0xBF.
IsCont(b) == b \in 128..191

\* The (first, second) pairs a 3-byte and a 4-byte sequence may start with.
Second3(first, second) ==
    \/ first = 224 /\ second \in 160..191
    \/ first \in 225..236 /\ second \in 128..191
    \/ first = 237 /\ second \in 128..159
    \/ first \in 238..239 /\ second \in 128..191

Second4(first, second) ==
    \/ first = 240 /\ second \in 144..191
    \/ first \in 241..243 /\ second \in 128..191
    \/ first = 244 /\ second \in 128..143

\* Utf8Error that reports the offset of the offending byte.
Utf8Error_AtByte(old_offset, index, error_len) ==
    [ok |-> FALSE, valid_up_to |-> index, error_len |-> error_len]

\* Utf8Error { valid_up_to: old_offset, error_len }; error_len 0 is None.
Utf8Error(old_offset, index, error_len) ==
    [ok |-> FALSE, valid_up_to |-> old_offset, error_len |-> error_len]

Utf8Ok == [ok |-> TRUE, valid_up_to |-> 0, error_len |-> 0]

RECURSIVE validate_from(_, _)
validate_from(v, old_offset) ==
    IF old_offset >= Len(v) THEN Utf8Ok
    ELSE LET first == v[old_offset + 1]
             n == Len(v) - old_offset
             byte(k) == v[old_offset + k + 1]
             w == utf8_char_width(first)
         IN  IF IsAscii(first) THEN validate_from(v, old_offset + 1)
             ELSE IF w = 2 THEN
                 IF n < 2 THEN Utf8Error(old_offset, old_offset + 1, 0)
                 ELSE IF ~IsCont(byte(1)) THEN Utf8Error(old_offset, old_offset + 1, 1)
                 ELSE validate_from(v, old_offset + 2)
             ELSE IF w = 3 THEN
                 IF n < 2 THEN Utf8Error(old_offset, old_offset + 1, 0)
                 ELSE IF ~Second3(first, byte(1)) THEN Utf8Error(old_offset, old_offset + 1, 1)
                 ELSE IF n < 3 THEN Utf8Error(old_offset, old_offset + 2, 0)
                 ELSE IF ~IsCont(byte(2)) THEN Utf8Error(old_offset, old_offset + 2, 2)
                 ELSE validate_from(v, old_offset + 3)
             ELSE IF w = 4 THEN
                 IF n < 2 THEN Utf8Error(old_offset, old_offset + 1, 0)
                 ELSE IF ~Second4(first, byte(1)) THEN Utf8Error(old_offset, old_offset + 1, 1)
                 ELSE IF n < 3 THEN Utf8Error(old_offset, old_offset + 2, 0)
                 ELSE IF ~IsCont(byte(2)) THEN Utf8Error(old_offset, old_offset + 2, 2)
                 ELSE IF n < 4 THEN Utf8Error(old_offset, old_offset + 3, 0)
                 ELSE IF ~IsCont(byte(3)) THEN Utf8Error(old_offset, old_offset + 3, 3)
                 ELSE validate_from(v, old_offset + 4)
             ELSE Utf8Error(old_offset, old_offset, 1)

run_utf8_validation(v) == validate_from(v, 0)

\* str::chars(): the scalar values of a valid UTF-8 byte sequence, in order.
RECURSIVE chars_from(_, _)
chars_from(v, index) ==
    IF index >= Len(v) THEN <<>>
    ELSE LET x == v[index + 1]
             byte(k) == v[index + k + 1]
         IN  IF x < 128 THEN <<x>> \o chars_from(v, index + 1)
             ELSE IF x < 224 THEN
                 <<(x - 192) * 64 + (byte(1) - 128)>> \o chars_from(v, index + 2)
             ELSE IF x < 240 THEN
                 <<(x - 224) * 4096 + (byte(1) - 128) * 64 + (byte(2) - 128)>>
                     \o chars_from(v, index + 3)
             ELSE <<(x - 240) * 262144 + (byte(1) - 128) * 4096
                        + (byte(2) - 128) * 64 + (byte(3) - 128)>>
                     \o chars_from(v, index + 4)

str_chars(v) == chars_from(v, 0)

\* from_utf8 that keeps only the valid prefix in the error.
from_utf8_ValidPrefix(bytes) ==
    LET e == run_utf8_validation(bytes)
    IN  IF e.ok
        THEN [tag |-> "Ok", vec |-> str_chars(bytes)]
        ELSE [tag |-> "Err", bytes |-> SubSeq(bytes, 1, e.valid_up_to),
              error |-> [valid_up_to |-> e.valid_up_to, error_len |-> e.error_len]]

\* UnicodeString::from_utf8
from_utf8(bytes) ==
    LET e == run_utf8_validation(bytes)
    IN  IF e.ok
        THEN [tag |-> "Ok", vec |-> str_chars(bytes)]
        ELSE [tag |-> "Err", bytes |-> bytes,
              error |-> [valid_up_to |-> e.valid_up_to, error_len |-> e.error_len]]

FromUtf8Error_as_bytes(e) == SubSeq(e.bytes, 1, Len(e.bytes))

FromUtf8Error_into_bytes(e) == e.bytes

FromUtf8Error_utf8_error(e) == e.error

\* UnicodeString::from_string
from_string(t) == str_chars(t)

\* to_owned that leaves out the last element.
to_owned_DropLast(v, s) == [i \in 1..(s.len - 1) |-> v[s.off + i]]

\* ToOwned for unicode_str: self.chars().to_vec()
to_owned(v, s) == chars(v, s)

NoCtor == [name |-> "none", n |-> 0, cap0 |-> 0]

InitConv ==
    /\ input \in ByteSeqs
    /\ output = NoValue
    /\ vec = <<>>
    /\ cap = 0
    /\ pushed = <<>>
    /\ ctor = NoCtor
    /\ overflow_checks = TRUE
    /\ cur = NoView
    /\ last = NoCall
    /\ wr = NoWrite
    /\ pc = "start"

\* UnicodeString::from_utf8(input)
FromUtf8 ==
    /\ pc = "start"
    /\ output' = from_utf8(input)
    /\ pc' = "done"
    /\ UNCHANGED <<vec, cap, pushed, ctor, overflow_checks, cur, last, wr, input>>

\* UnicodeString::from_string(input): a &str is valid UTF-8.
FromString ==
    /\ pc = "start"
    /\ run_utf8_validation(input).ok
    /\ vec' = from_string(input)
    /\ cap' = Len(from_string(input))
    /\ ctor' = [name |-> "from_string", n |-> 0, cap0 |-> Len(from_string(input))]
    /\ pc' = "running"
    /\ UNCHANGED <<pushed, overflow_checks, cur, last, wr, input, output>>

\* v.to_owned() on the live view.
ToOwned ==
    /\ pc = "running"
    /\ cur.live
    /\ output' = [tag |-> "Owned", vec |-> to_owned(vec, cur)]
    /\ pc' = "done"
    /\ UNCHANGED <<vec, cap, pushed, ctor, overflow_checks, cur, last, wr, input>>

NextConv ==
    \/ FromUtf8
    \/ FromString
    \/ Deref
    \/ ToOwned

SpecConv == InitConv /\ [][NextConv]_vars

\* ---------------------------------------------------------- comparisons
\* An operand of == or cmp: a view of the buffer `vec`, or another buffer
\* with its own vector.
ViewOperand(off, len) == [kind |-> "unicode_str", off |-> off, len |-> len, own |-> <<>>]

BufferOperand(v) == [kind |-> "UnicodeString", off |-> 0, len |-> Len(v), own |-> v]

CharSeqs == UNION {[1..n -> Chars] : n \in 0..MaxLen}

ViewOperands(v) ==
    {o \in {ViewOperand(off, len) : off \in 0..Len(v), len \in 0..Len(v)} :
        o.off + o.len <= Len(v)}

Operands(v) == ViewOperands(v) \cup {BufferOperand(w) : w \in CharSeqs}

\* The elements an operand covers: `&x[..]` of a buffer is the view of its
\* whole vector.
operand_chars(x) ==
    IF x.kind = "UnicodeString"
    THEN chars(x.own, UnicodeString_deref(x.own))
    ELSE chars(vec, x)

\* [char] == [char]: equal lengths and equal elements.
slice_eq(a, b) == Len(a) = Len(b) /\ \A i \in 1..Len(a) : a[i] = b[i]

\* char::cmp: by code point.
char_cmp(a, b) == IF a < b THEN "Less" ELSE IF a > b THEN "Greater" ELSE "Equal"

\* [char]::cmp: the first pair of unequal elements among the first
\* min(len) decides, otherwise the lengths do.
RECURSIVE slice_cmp_from(_, _, _)
slice_cmp_from(a, b, i) ==
    IF i > Len(a) \/ i > Len(b) THEN char_cmp(Len(a), Len(b))
    ELSE IF char_cmp(a[i], b[i]) # "Equal" THEN char_cmp(a[i], b[i])
    ELSE slice_cmp_from(a, b, i + 1)

\* slice_cmp that compares the lengths first.
slice_cmp_LengthFirst(a, b) ==
    IF Len(a) # Len(b) THEN char_cmp(Len(a), Len(b)) ELSE slice_cmp_from(a, b, 1)

slice_cmp(a, b) == slice_cmp_from(a, b, 1)

\* unicode_str_eq that compares the references, not the elements.
unicode_str_eq_SameStorage(x, y) == x = y

\* PartialEq for unicode_str
unicode_str_eq(x, y) == slice_eq(operand_chars(x), operand_chars(y))

unicode_str_ne(x, y) == ~unicode_str_eq(x, y)

\* Ord / PartialOrd for unicode_str
unicode_str_cmp(x, y) == slice_cmp(operand_chars(x), operand_chars(y))

unicode_str_partial_cmp(x, y) == [tag |-> "Some", val |-> unicode_str_cmp(x, y)]

\* PartialEq for UnicodeString and impl_eq!: eq(&self[..], &other[..]).
UnicodeString_eq(x, y) == unicode_str_eq(x, y)

UnicodeString_ne(x, y) == unicode_str_ne(x, y)

\* derive(PartialOrd, Ord) on UnicodeString compares the vec fields.
UnicodeString_cmp(x, y) == slice_cmp(x.own, y.own)

UnicodeString_partial_cmp(x, y) == [tag |-> "Some", val |-> slice_cmp(x.own, y.own)]

\* x == y, x != y, x.cmp(y) and x.partial_cmp(y) as the operand types
\* select them; a buffer is compared with a view through its deref.
op_eq(x, y) ==
    IF x.kind = "unicode_str" /\ y.kind = "unicode_str"
    THEN unicode_str_eq(x, y) ELSE UnicodeString_eq(x, y)

op_ne(x, y) ==
    IF x.kind = "unicode_str" /\ y.kind = "unicode_str"
    THEN unicode_str_ne(x, y) ELSE UnicodeString_ne(x, y)

op_cmp(x, y) ==
    IF x.kind = "UnicodeString" /\ y.kind = "UnicodeString"
    THEN UnicodeString_cmp(x, y) ELSE unicode_str_cmp(x, y)

op_partial_cmp(x, y) ==
    IF x.kind = "UnicodeString" /\ y.kind = "UnicodeString"
    THEN UnicodeString_partial_cmp(x, y) ELSE unicode_str_partial_cmp(x, y)

InitCmp ==
    /\ vec \in CharSeqs
    /\ cap = Len(vec)
    /\ pushed = <<>>
    /\ ctor = NoCtor
    /\ overflow_checks = TRUE
    /\ cur = NoView
    /\ last = NoCall
    /\ wr = NoWrite
    /\ input \in {[a |-> a, b |-> b, c |-> c] :
                    a \in Operands(vec), b \in Operands(vec), c \in Operands(vec)}
    /\ output = NoValue
    /\ pc = "start"

\* Every comparison of the three operands is evaluated.
Compare ==
    /\ pc = "start"
    /\ output' = [tag |-> "Compared",
                  eq_aa |-> op_eq(input.a, input.a),
                  eq_ab |-> op_eq(input.a, input.b),
                  eq_ba |-> op_eq(input.b, input.a),
                  eq_bc |-> op_eq(input.b, input.c),
                  eq_ac |-> op_eq(input.a, input.c),
                  ne_ab |-> op_ne(input.a, input.b),
                  cmp_ab |-> op_cmp(input.a, input.b),
                  cmp_ba |-> op_cmp(input.b, input.a),
                  cmp_bc |-> op_cmp(input.b, input.c),
                  cmp_ac |-> op_cmp(input.a, input.c),
                  partial_cmp_ab |-> op_partial_cmp(input.a, input.b)]
    /\ pc' = "done"
    /\ UNCHANGED <<vec, cap, pushed, ctor, overflow_checks, cur, last, wr, input>>

NextCmp == Compare

SpecCmp == InitCmp /\ [][NextCmp]_vars

\* ------------------------------------------------------------- two buffers
\* A second buffer whose vector the allocator placed `gap` elements after the
\* end of the first buffer's allocation.  `vec` is the first buffer, `cur`
\* the live view borrowed from it, `input.other` the second buffer and
\* `output` the live view borrowed from the second buffer.  The first buffer
\* is not empty, so its vector is allocated.
MaxGap == 1

Heap(other, gap) == [tag |-> "Heap", other |-> other, gap |-> gap]

InitAlias ==
    /\ vec \in CharSeqs \ {<<>>}
    /\ cap = Len(vec)
    /\ pushed = <<>>
    /\ ctor = NoCtor
    /\ overflow_checks \in BOOLEAN
    /\ cur = NoView
    /\ last = NoCall
    /\ wr = NoWrite
    /\ input \in {Heap(w, g) : w \in CharSeqs, g \in 0..MaxGap}
    /\ output = NoView
    /\ pc = "running"

\* &a[r] or &mut a[r] on the first buffer; the result stays live.
BorrowFirst(r, mut) ==
    /\ pc = "running"
    /\ ~cur.live
    /\ LET out == IF mut THEN UnicodeString_index_mut(r, vec, overflow_checks)
                  ELSE UnicodeString_index(r, vec, overflow_checks)
       IN /\ cur' = IF out.tag = "View" THEN LiveView(out.off, out.len, mut) ELSE cur
          /\ pc' = IF out.tag = "Panic" THEN "panicked" ELSE pc
    /\ UNCHANGED <<vec, cap, pushed, ctor, overflow_checks, last, wr, input, output>>

\* &*b or &mut *b on the second buffer; the result stays live.
BorrowSecond(mut) ==
    /\ pc = "running"
    /\ ~output.live
    /\ LET s == IF mut THEN UnicodeString_deref_mut(input.other)
                ELSE UnicodeString_deref(input.other)
       IN output' = LiveView(s.off, s.len, mut)
    /\ UNCHANGED <<vec, cap, pushed, ctor, overflow_checks, cur, last, wr, input, pc>>

ReleaseSecond ==
    /\ pc = "running"
    /\ output.live
    /\ output' = NoView
    /\ UNCHANGED <<vec, cap, pushed, ctor, overflow_checks, cur, last, wr, input, pc>>

NextAlias ==
    \/ \E r \in Ranges, mut \in BOOLEAN : BorrowFirst(r, mut)
    \/ \E mut \in BOOLEAN : BorrowSecond(mut)
    \/ Release
    \/ ReleaseSecond

SpecAlias == InitAlias /\ [][NextAlias]_vars

\* ------------------------------------------------------------ properties
\* The indexing call whose outcome `last` holds.
IsCall == last.on # "none"

IsIndex == last.mode \in {"index", "index_mut"}

\* The invalid-range failure: the "failed to slice string" panic of
\* index / index_mut, None of get / get_mut.
InvalidRangeFailure == IF IsIndex THEN last.out = slice_error_fail ELSE last.out = None

\* C1: indexing a view by a half-open range with begin <= end <= len, read or
\* mutable, yields a view of length end - begin whose i-th element is element
\* begin + i of the indexed view.
C1_HalfOpenValid ==
    (IsCall /\ last.range.kind = "Range"
        /\ last.range.start <= last.range.end /\ last.range.end <= last.src.len)
    => /\ last.out.tag = "View"
       /\ last.out.len = last.range.end - last.range.start
       /\ \A i \in 0..(last.range.end - last.range.start - 1) :
            chars(vec, last.out)[i + 1] = chars(vec, last.src)[last.range.start + i + 1]

C1_Witness ==
    /\ last.on = "unicode_str" /\ last.range.kind = "Range" /\ last.mode = "index_mut"
    /\ last.range.start = 1 /\ last.range.end = 2 /\ last.src.len = 2
    /\ last.out.tag = "View"
    /\ vec[1] # vec[2]

\* C2: indexing a view by a half-open range with begin > end or end > len
\* fails with the "failed to slice string" panic (index, index_mut) or returns
\* None (get, get_mut), and never returns a view.
C2_HalfOpenInvalidFails ==
    (IsCall /\ last.range.kind = "Range"
        /\ (last.range.start > last.range.end \/ last.range.end > last.src.len))
    => InvalidRangeFailure

\* C3: every view an indexing call returns lies inside the span of the view
\* it was cut from: its offset + length never exceeds the source's.
C3_ViewInsideSource ==
    (IsCall /\ last.out.tag = "View") => InSpan(last.out, last.src)

\* C4: indexing a view (the empty one included) or a buffer by the full
\* range, read or mutable, returns a view of the same length with the same
\* elements in the same order.
C4_FullRange ==
    (IsCall /\ last.range.kind = "RangeFull")
    => /\ last.out.tag = "View"
       /\ last.out.len = last.src.len
       /\ chars(vec, last.out) = chars(vec, last.src)
       /\ last.on = "UnicodeString" => chars(vec, last.out) = vec

C4_Witness ==
    /\ last.on = "unicode_str" /\ last.range.kind = "RangeFull"
    /\ last.src.off = 1 /\ last.src.len = 1
    /\ last.out.tag = "View"
    /\ vec[1] # vec[2]

\* C5: a closed or closed-to range whose end is usize::MAX fails with the
\* "attempted to index str up to maximum usize" panic (index, index_mut),
\* not the invalid-range panic, and get / get_mut return None, for every
\* begin and every view length.
C5_MaxEndOverflows ==
    (IsCall /\ last.range.kind \in {"RangeInclusive", "RangeToInclusive"}
        /\ last.range.end = USIZE_MAX)
    => IF IsIndex
       THEN last.out = str_index_overflow_fail /\ last.out # slice_error_fail
       ELSE last.out = None

C5_Witness ==
    /\ last.on = "unicode_str" /\ last.range.kind = "RangeInclusive" /\ last.mode = "index"
    /\ last.range.start = 0 /\ last.range.end = USIZE_MAX /\ ~last.range.exhausted
    /\ last.src.len = 2
    /\ last.out.tag = "Panic"

\* C6: a closed range [begin, end] or closed-to range (-inf, end] with
\* end < usize::MAX, not exhausted, has the outcome of the half-open range
\* [begin, end + 1): the same view when that range is valid, the
\* invalid-range failure when begin > end + 1 or end >= len.
C6_ClosedAsHalfOpen ==
    (IsCall /\ last.range.kind \in {"RangeInclusive", "RangeToInclusive"}
        /\ last.range.end < USIZE_MAX /\ ~last.range.exhausted)
    => /\ last.out = SliceOutcome(Range(last.range.start, last.range.end + 1),
                                  last.mode, last.src, overflow_checks)
       /\ (last.range.start > last.range.end + 1 \/ last.range.end >= last.src.len)
            => InvalidRangeFailure

\* C7: the open-ended range [begin, inf) has the outcome of the half-open
\* range [begin, len): the last len - begin elements for begin <= len, the
\* invalid-range failure for begin > len.
C7_OpenEndedAsHalfOpen ==
    (IsCall /\ last.range.kind = "RangeFrom")
    => /\ last.out = SliceOutcome(Range(last.range.start, last.src.len),
                                  last.mode, last.src, overflow_checks)
       /\ last.range.start <= last.src.len
            => last.out = View(last.src.off + last.range.start,
                               last.src.len - last.range.start)
       /\ last.range.start > last.src.len => InvalidRangeFailure

\* C8: the open-started range (-inf, end) has the outcome of the half-open
\* range [0, end): the first end elements for end <= len, the invalid-range
\* failure for end > len, read and mutable.
C8_OpenStartedAsHalfOpen ==
    (IsCall /\ last.range.kind = "RangeTo")
    => /\ last.out = SliceOutcome(Range(0, last.range.end),
                                  last.mode, last.src, overflow_checks)
       /\ last.range.end <= last.src.len
            => last.out = View(last.src.off, last.range.end)
       /\ last.range.end > last.src.len => InvalidRangeFailure

\* C9: push(c) on a buffer of length n leaves length n + 1, elements 0..n
\* unchanged, element n equal to c and capacity >= n + 1; the content after
\* k pushes onto an empty buffer is the pushed values in push order.
C9_Push ==
    [][pushed' # pushed =>
        /\ Len(vec') = Len(vec) + 1
        /\ \A i \in 1..Len(vec) : vec'[i] = vec[i]
        /\ vec'[Len(vec) + 1] = pushed'[Len(pushed')]
        /\ cap' >= Len(vec) + 1
        /\ vec' = pushed']_vars

C9_Witness ==
    /\ Len(pushed) = 2 /\ pushed[1] # pushed[2]
    /\ vec = pushed

\* C10: capacity() >= len() in every state reached by pushes from new() or
\* with_capacity(n); a buffer made by with_capacity(n) starts with length 0
\* and capacity >= n, and its capacity is unchanged by the first n pushes.
C10_Capacity ==
    /\ cap >= UnicodeString_len(vec)
    /\ pushed = <<>> => UnicodeString_len(vec) = 0
    /\ ctor.name = "with_capacity" =>
            /\ ctor.cap0 >= ctor.n
            /\ Len(pushed) <= ctor.n => cap = ctor.cap0

C10_Witness ==
    /\ ctor.name = "with_capacity" /\ ctor.n >= 1
    /\ Len(pushed) = ctor.n
    /\ cap = ctor.cap0

\* C17: indexing a buffer by a range of any of the six kinds, read or
\* mutable, has the outcome (the same view, or the same failure) of indexing
\* the buffer's full-span view by that range, and the buffer's len() is the
\* length of its full-span view in every state.
C17_BufferAsFullView ==
    /\ UnicodeString_len(vec) = UnicodeString_deref(vec).len
    /\ UnicodeString_len(vec) = UnicodeString_deref_mut(vec).len
    /\ last.on = "UnicodeString" =>
            /\ last.src = UnicodeString_deref(vec)
            /\ last.out = SliceOutcome(last.range, last.mode, UnicodeString_deref(vec),
                                       overflow_checks)

C17_Witness ==
    /\ last.on = "UnicodeString" /\ last.mode = "index_mut"
    /\ last.range.kind = "RangeInclusive" /\ ~last.range.exhausted
    /\ last.range.start = 0 /\ last.range.end = 1
    /\ Len(vec) = 2
    /\ last.out = View(0, 2)

\* C20: a closed range with end < usize::MAX that iteration has exhausted is
\* indexed as the empty half-open range [end + 1, end + 1): an empty view
\* when end + 1 <= len, the invalid-range failure when end + 1 > len; a range
\* that is not exhausted is indexed as [begin, end + 1).
C20_ExhaustedClosedRange ==
    (IsCall /\ last.range.kind = "RangeInclusive" /\ last.range.end < USIZE_MAX)
    => IF last.range.exhausted
       THEN IF last.range.end + 1 <= last.src.len
            THEN last.out = View(last.src.off + last.range.end + 1, 0)
            ELSE InvalidRangeFailure
       ELSE last.out = SliceOutcome(Range(last.range.start, last.range.end + 1),
                                    last.mode, last.src, overflow_checks)

\* C19: a write at position i through the mutable view of b[begin..end],
\* begin <= end <= len, needs i < end - begin and changes exactly element
\* begin + i of the buffer: the buffer's length, capacity and other elements
\* are unchanged and the view's length is end - begin.
C19_WriteThroughView ==
    (pc = "wrote" /\ last.range.start <= last.range.end
        /\ last.range.end <= Len(wr.before))
    => /\ last.out.len = last.range.end - last.range.start
       /\ wr.i < last.range.end - last.range.start
       /\ Len(vec) = Len(wr.before)
       /\ cap = wr.cap
       /\ vec[last.range.start + wr.i + 1] = wr.ch
       /\ \A k \in 1..Len(vec) :
            k # last.range.start + wr.i + 1 => vec[k] = wr.before[k]

C19_Witness ==
    /\ pc = "wrote"
    /\ last.range.start = 1 /\ last.range.end = 2 /\ wr.i = 0
    /\ Len(wr.before) = 2 /\ wr.before[2] # wr.ch
    /\ vec[2] = wr.ch

\* ------------------------------------------- UTF-8, as the standard defines it
\* A Unicode scalar value: a code point that is not a surrogate.
IsScalar(cp) == cp \in 0..55295 \/ cp \in 57344..1114111

\* The UTF-8 encoding of one scalar value (<<>> for anything else).
Encode1(cp) ==
    IF ~IsScalar(cp) THEN <<>>
    ELSE IF cp < 128 THEN <<cp>>
    ELSE IF cp < 2048 THEN <<192 + (cp \div 64), 128 + (cp % 64)>>
    ELSE IF cp < 65536 THEN
        <<224 + (cp \div 4096), 128 + ((cp \div 64) % 64), 128 + (cp % 64)>>
    ELSE <<240 + (cp \div 262144), 128 + ((cp \div 4096) % 64),
           128 + ((cp \div 64) % 64), 128 + (cp % 64)>>

RECURSIVE Encode(_)
Encode(cps) == IF cps = <<>> THEN <<>> ELSE Encode1(Head(cps)) \o Encode(Tail(cps))

\* The payload bits of 1 to 4 bytes read as one sequence.
PayloadOf(seg) ==
    CASE Len(seg) = 1 -> seg[1]
      [] Len(seg) = 2 -> (seg[1] - 192) * 64 + (seg[2] - 128)
      [] Len(seg) = 3 -> (seg[1] - 224) * 4096 + (seg[2] - 128) * 64 + (seg[3] - 128)
      [] Len(seg) = 4 -> (seg[1] - 240) * 262144 + (seg[2] - 128) * 4096
                            + (seg[3] - 128) * 64 + (seg[4] - 128)

\* A byte sequence is valid UTF-8 when it is a concatenation of encodings of
\* scalar values.
RECURSIVE WellFormed(_)
WellFormed(bytes) ==
    \/ bytes = <<>>
    \/ \E k \in 1..(IF Len(bytes) < 4 THEN Len(bytes) ELSE 4) :
          /\ Encode1(PayloadOf(SubSeq(bytes, 1, k))) = SubSeq(bytes, 1, k)
          /\ WellFormed(SubSeq(bytes, k + 1, Len(bytes)))

LongestValidPrefix(bytes) ==
    CHOOSE k \in 0..Len(bytes) :
        /\ WellFormed(SubSeq(bytes, 1, k))
        /\ \A j \in (k + 1)..Len(bytes) : ~WellFormed(SubSeq(bytes, 1, j))

Converted == pc = "done" /\ output.tag \in {"Ok", "Err"}

\* C14: from_utf8 of a byte vector that is not valid UTF-8 returns an error
\* whose as_bytes() and into_bytes() are the input, byte for byte; of a valid
\* one it returns a buffer of the decoded scalar values, and
\* [240, 159, 146, 150] gives a buffer of length 1.
C14_FromUtf8 ==
    (pc = "done" /\ output.tag # "Owned")
    => /\ output.tag \in {"Ok", "Err"}
       /\ output.tag = "Ok" <=> WellFormed(input)
       /\ output.tag = "Err" =>
            /\ FromUtf8Error_as_bytes(output) = input
            /\ FromUtf8Error_into_bytes(output) = input
            /\ Len(FromUtf8Error_into_bytes(output)) = Len(input)
       /\ output.tag = "Ok" =>
            /\ \A i \in 1..Len(output.vec) : IsScalar(output.vec[i])
            /\ Encode(output.vec) = input
       /\ input = <<240, 159, 146, 150>> => output.tag = "Ok" /\ Len(output.vec) = 1

C14_Witness ==
    /\ Converted
    /\ output.tag = "Err"
    /\ input = <<240, 159, 146, 0>>
    /\ FromUtf8Error_utf8_error(output).valid_up_to = 0

\* C15 as stated: from_utf8([0, 159]) fails with an error whose bytes are
\* [0, 159] and whose utf8_error().valid_up_to() is 0.
C15_Original ==
    (Converted /\ input = <<0, 159>>)
    => /\ output.tag = "Err"
       /\ FromUtf8Error_into_bytes(output) = <<0, 159>>
       /\ FromUtf8Error_utf8_error(output).valid_up_to = 0

\* C15, amended: from_utf8([0, 159]) fails with an error whose bytes are
\* [0, 159] and whose utf8_error().valid_up_to() is 1: byte 0 is a valid
\* one-byte sequence and byte 159 is the invalid one.
C15_ValidUpToOne ==
    (Converted /\ input = <<0, 159>>)
    => /\ output.tag = "Err"
       /\ FromUtf8Error_into_bytes(output) = <<0, 159>>
       /\ FromUtf8Error_utf8_error(output).valid_up_to = 1

C15_Witness ==
    /\ Converted
    /\ input = <<0, 159>>
    /\ output.tag = "Err"
    /\ output.bytes = <<0, 159>>

\* C16: for an invalid byte vector, utf8_error().valid_up_to() is the length
\* of the longest prefix of the input that is valid UTF-8; for [0, 159] it
\* is 1.
C16_ValidUpTo ==
    (Converted /\ output.tag = "Err")
    => /\ FromUtf8Error_utf8_error(output).valid_up_to = LongestValidPrefix(input)
       /\ input = <<0, 159>> => FromUtf8Error_utf8_error(output).valid_up_to = 1

C16_Witness ==
    /\ Converted
    /\ output.tag = "Err"
    /\ input = <<0, 224, 160, 0>>
    /\ FromUtf8Error_utf8_error(output).valid_up_to = 1

\* C11: from_string(t), dereferenced to its full-span view and converted
\* back with to_owned(), gives a buffer with the length and the scalar
\* values of from_string(t), in order, and leaves the source buffer as
\* from_string(t) made it.
C11_RoundTrip ==
    (pc = "done" /\ output.tag = "Owned")
    => /\ Len(output.vec) = Len(from_string(input))
       /\ \A i \in 1..Len(output.vec) : output.vec[i] = from_string(input)[i]
       /\ Encode(output.vec) = input
       /\ vec = from_string(input)
       /\ cur = LiveView(0, Len(vec), FALSE)

C11_Witness ==
    /\ pc = "done" /\ output.tag = "Owned"
    /\ input = <<195, 159, 0>>
    /\ output.vec = <<223, 0>>


\* The scalar values an operand denotes, read directly from where it lives.
Content(x) ==
    IF x.kind = "UnicodeString" THEN x.own ELSE SubSeq(vec, x.off + 1, x.off + x.len)

Compared == pc = "done" /\ output.tag = "Compared"

\* C12: equality on views, on buffers and between a buffer and a view holds
\* exactly when both denote the same sequence of scalar values, whatever
\* storage they reference; it is reflexive, symmetric and transitive, ne is
\* the negation of eq, and a == b holds iff cmp(a, b) is Equal.
C12_StructuralEquality ==
    Compared =>
        /\ output.eq_ab <=> (Content(input.a) = Content(input.b))
        /\ output.eq_aa
        /\ output.eq_ab <=> output.eq_ba
        /\ (output.eq_ab /\ output.eq_bc) => output.eq_ac
        /\ output.ne_ab <=> ~output.eq_ab
        /\ output.eq_ab <=> (output.cmp_ab = "Equal")

\* Two views of different parts of one buffer and a separate buffer, all
\* three equal.
C12_Witness ==
    /\ Compared
    /\ input.a.kind = "unicode_str" /\ input.b.kind = "unicode_str"
    /\ input.a.off # input.b.off
    /\ input.a.len = 1
    /\ input.c.kind = "UnicodeString"
    /\ output.eq_ab /\ output.eq_bc /\ output.eq_ac

\* a precedes b lexicographically: after a common prefix of k elements either
\* a ends and b does not, or a's next element is the smaller code point.
LexLess(a, b) ==
    \E k \in 0..Len(a) :
        /\ k <= Len(b)
        /\ \A i \in 1..k : a[i] = b[i]
        /\ \/ k = Len(a) /\ k < Len(b)
           \/ k < Len(a) /\ k < Len(b) /\ a[k + 1] < b[k + 1]

\* C13: cmp on views, and the derived cmp on buffers, is a total order that
\* compares the scalar-value sequences lexicographically by code point: the
\* first differing position decides and a proper prefix is smaller
\* (['a','b'] < ['a','c'], ['a'] < ['a','b']); partial_cmp is Some(cmp).
C13_LexicographicOrder ==
    /\ slice_cmp(<<97, 98>>, <<97, 99>>) = "Less"
    /\ slice_cmp(<<97>>, <<97, 98>>) = "Less"
    /\ Compared =>
        /\ output.cmp_ab \in {"Less", "Equal", "Greater"}
        /\ (output.cmp_ab = "Less") <=> LexLess(Content(input.a), Content(input.b))
        /\ (output.cmp_ab = "Greater") <=> LexLess(Content(input.b), Content(input.a))
        /\ (output.cmp_ab = "Equal") <=> (Content(input.a) = Content(input.b))
        /\ (output.cmp_ab = "Less") <=> (output.cmp_ba = "Greater")
        /\ (output.cmp_ab = "Equal") <=> (output.cmp_ba = "Equal")
        /\ (output.cmp_ab # "Greater" /\ output.cmp_bc # "Greater") =>
               /\ output.cmp_ac # "Greater"
               /\ (output.cmp_ab = "Less" \/ output.cmp_bc = "Less") =>
                      output.cmp_ac = "Less"
        /\ output.partial_cmp_ab = [tag |-> "Some", val |-> output.cmp_ab]

\* ['a'] < ['a','b'] by the prefix rule and ['a','b'] < ['b'] by the first
\* differing position, as views of one buffer.
C13_Witness ==
    /\ Compared
    /\ vec = <<97, 98>>
    /\ input.a = ViewOperand(0, 1)
    /\ input.b = ViewOperand(0, 2)
    /\ input.c = ViewOperand(1, 1)
    /\ output.cmp_ab = "Less" /\ output.cmp_bc = "Less" /\ output.cmp_ac = "Less"


\* The storage elements the two live views cover, counted from the start of
\* the first buffer's allocation.
FirstCells == {cur.off + i : i \in 0..(cur.len - 1)}

SecondCells == {cap + input.gap + output.off + i : i \in 0..(output.len - 1)}

\* C18: no two live views cover a common storage element unless both are
\* read-only (at most one mutable view per storage region, and no read-only
\* view beside a mutable one on overlapping storage).
C18_NoAliasedMutableView ==
    (input.tag = "Heap" /\ cur.live /\ output.live /\ (cur.mut \/ output.mut)) =>
        FirstCells \cap SecondCells = {}

====
